---- MODULE Spec2Model ----
(***************************************************************************)
(* The multi-agent analysis pipeline of stock-ai-service: the LangGraph    *)
(* workflow built by StockAnalysisOrchestrator, the five specialist agents *)
(* of agents/stock_agents.py and the workflow state of agents/state.py.    *)
(*                                                                         *)
(* Conventions: an Optional value is None (the empty sequence) or Some(x); *)
(* a confidence is an integer number of hundredths (0.5 is 50); a Python   *)
(* dict is a record or a function from its keys.                           *)
(***************************************************************************)
EXTENDS Integers, Sequences, FiniteSets, TLC

None == << >>

Some(x) == <<x>>

(***************************************************************************)
(* The graph: nodes, entry point and edges (orchestrator.py, _build_graph) *)
(***************************************************************************)
Nodes == <<"finance_agent", "geopolitics_agent", "legal_agent", "quant_agent", "final_agent">>

NodeSet == {Nodes[i] : i \in DOMAIN Nodes}

EntryPoint == "finance_agent"

\* A wrong edge: the finance agent wired straight to the legal agent.
SuccessorSkipsGeopolitics(n) ==
    CASE n = "finance_agent"     -> "legal_agent"
      [] n = "geopolitics_agent" -> "legal_agent"
      [] n = "legal_agent"       -> "quant_agent"
      [] n = "quant_agent"       -> "final_agent"
      [] n = "final_agent"       -> "END"

Successor(n) ==
    CASE n = "finance_agent"     -> "geopolitics_agent"
      [] n = "geopolitics_agent" -> "legal_agent"
      [] n = "legal_agent"       -> "quant_agent"
      [] n = "quant_agent"       -> "final_agent"
      [] n = "final_agent"       -> "END"

(***************************************************************************)
(* The agents: agent_type, the state key each one writes, the label of its *)
(* error entry and the current_step it sets (stock_agents.py)              *)
(***************************************************************************)
AgentType(n) ==
    CASE n = "finance_agent"     -> "finance_guru"
      [] n = "geopolitics_agent" -> "geopolitics_guru"
      [] n = "legal_agent"       -> "legal_guru"
      [] n = "quant_agent"       -> "quant_dev"
      [] n = "final_agent"       -> "financial_analyst"

\* A cross-write: the geopolitics agent storing into the finance key.
SlotOfCrossWrite(n) ==
    CASE n = "finance_agent"     -> "finance_analysis"
      [] n = "geopolitics_agent" -> "finance_analysis"
      [] n = "legal_agent"       -> "legal_analysis"
      [] n = "quant_agent"       -> "quant_analysis"
      [] n = "final_agent"       -> "final_analysis"

SlotOf(n) ==
    CASE n = "finance_agent"     -> "finance_analysis"
      [] n = "geopolitics_agent" -> "geopolitics_analysis"
      [] n = "legal_agent"       -> "legal_analysis"
      [] n = "quant_agent"       -> "quant_analysis"
      [] n = "final_agent"       -> "final_analysis"

ErrorLabel(n) ==
    CASE n = "finance_agent"     -> "Finance analysis failed"
      [] n = "geopolitics_agent" -> "Geopolitics analysis failed"
      [] n = "legal_agent"       -> "Legal analysis failed"
      [] n = "quant_agent"       -> "Quant analysis failed"
      [] n = "final_agent"       -> "Final analysis failed"

StepLabel(n) ==
    CASE n = "finance_agent"     -> "finance_complete"
      [] n = "geopolitics_agent" -> "geopolitics_complete"
      [] n = "legal_agent"       -> "legal_complete"
      [] n = "quant_agent"       -> "quant_complete"
      [] n = "final_agent"       -> "analysis_complete"

(***************************************************************************)
(* The domain-data fetch (BaseStockAgent.get_stock_data).  The provider    *)
(* answers with price history, answers with an empty history, or raises.   *)
(* current_price is a number, Python's None, or absent from the dict (the  *)
(* dict of the except branch holds the single key "error").                *)
(***************************************************************************)
FetchOutcomes == {"ok", "empty_history", "raises"}

get_stock_data(fetch) ==
    IF fetch = "raises"
    THEN [keys |-> {"error"}, current_price |-> "absent"]
    ELSE [keys |-> {"current_price", "company_name", "sector", "beta"},
          current_price |-> IF fetch = "ok" THEN "number" ELSE "None"]

\* dict.get('current_price', default)
GetCurrentPrice(stock_data, default) ==
    IF "current_price" \in stock_data.keys THEN stock_data.current_price ELSE default

\* f"{v:.2f}": formats a number, raises ValueError for the string 'N/A' and
\* TypeError for None
Format2f(v) ==
    CASE v = "number" -> "ok"
      [] v = "N/A"    -> "ValueError"
      [] v = "None"   -> "TypeError"

\* Building the prompt: the quant prompt formats the price with default 'N/A',
\* the final prompt with default 100; the other three prompts do not format it.
\* "ok", or the exception the f-string raises.
RenderPrompt(n, stock_data) ==
    CASE n = "quant_agent" -> Format2f(GetCurrentPrice(stock_data, "N/A"))
      [] n = "final_agent" -> Format2f(GetCurrentPrice(stock_data, "number"))
      [] OTHER             -> "ok"

(***************************************************************************)
(* The completion service (LLMService.generate_analysis): it raises        *)
(* RuntimeError (provider failure, timeout) or returns a text.  A text is  *)
(* described by what _parse_response and the agents look at: whether it    *)
(* holds a ```json fence, whether it holds both braces, what json.loads    *)
(* makes of the extracted span, and the JSON object it holds (two texts may *)
(* wrap the same object), with its keys and confidence.  Confidences are   *)
(* in hundredths: 80 is the JSON number 0.8, 8500 the JSON number 85.      *)
(* points tells what the object's prediction.predictions list holds:       *)
(* entries with ISO dates, entries whose date is not an ISO date, or       *)
(* nothing (the object has no prediction).                                 *)
(***************************************************************************)
CompletionFailures == {"provider_error", "timeout"}

RequiredKeys == {"analysis", "confidence", "key_factors"}

Texts ==
    { [id |-> "fenced",        fence |-> TRUE,  braces |-> TRUE,  json |-> "object",
       object |-> "full",          keys |-> RequiredKeys \cup {"prediction"}, confidence |-> 80, points |-> "iso"],
      [id |-> "bare",          fence |-> FALSE, braces |-> TRUE,  json |-> "object",
       object |-> "full",          keys |-> RequiredKeys \cup {"prediction"}, confidence |-> 80, points |-> "iso"],
      [id |-> "percent",       fence |-> FALSE, braces |-> TRUE,  json |-> "object",
       object |-> "percent",       keys |-> RequiredKeys \cup {"prediction"}, confidence |-> 8500, points |-> "not_iso"],
      [id |-> "no_prediction", fence |-> FALSE, braces |-> TRUE,  json |-> "object",
       object |-> "no_prediction", keys |-> RequiredKeys, confidence |-> 80, points |-> "none"],
      [id |-> "no_analysis",   fence |-> FALSE, braces |-> TRUE,  json |-> "object",
       object |-> "no_analysis",   keys |-> {"confidence", "key_factors", "prediction"}, confidence |-> 80, points |-> "iso"],
      [id |-> "bad_json",      fence |-> FALSE, braces |-> TRUE,  json |-> "malformed",
       object |-> "none",          keys |-> {}, confidence |-> 0, points |-> "none"],
      [id |-> "prose",         fence |-> FALSE, braces |-> FALSE, json |-> "malformed",
       object |-> "none",          keys |-> {}, confidence |-> 0, points |-> "none"] }

NoText == [id |-> "none", fence |-> FALSE, braces |-> FALSE, json |-> "malformed",
           object |-> "none", keys |-> {}, confidence |-> 0, points |-> "none"]

\* What one call of generate_analysis does: raise, or return a text.
CompletionOutcomes ==
    {[raised |-> f, text |-> NoText] : f \in CompletionFailures}
        \cup {[raised |-> "no", text |-> t] : t \in Texts}

\* The dict of the two except branches of _parse_response.
Fallback(text, sentinel) ==
    [keys |-> RequiredKeys, analysis |-> <<"raw", text.id>>, confidence |-> 50,
     key_factors |-> <<sentinel>>, prediction |-> None]

\* json.loads of the extracted span: the object's own fields, or JSONDecodeError.
JsonLoads(text) ==
    IF text.json = "object"
    THEN [keys |-> text.keys, analysis |-> <<"analysis_of", text.object>>,
          confidence |-> text.confidence, key_factors |-> <<"factors_of", text.object>>,
          prediction |-> IF "prediction" \in text.keys
                         THEN Some([predictions |-> text.points, of |-> text.object]) ELSE None]
    ELSE Fallback(text, "parsing_error")

_parse_response(text) ==
    IF text.fence THEN JsonLoads(text)
    ELSE IF text.braces THEN JsonLoads(text)
    ELSE Fallback(text, "unknown_error")

(***************************************************************************)
(* The text handed to _parse_response, as a sequence of tokens: the fence  *)
(* opener "fence_json" (three backquotes and json), the bare fence         *)
(* "fence" (three backquotes), the two braces, the members of a            *)
(* JSON object ("kv") and prose without any of these.                      *)
(***************************************************************************)
Tokens == {"fence_json", "fence", "{", "}", "kv", "prose"}

MaxTokens == 5

ResponseContents == UNION {[1..n -> Tokens] : n \in 0..MaxTokens}

\* str.find for a token of S: the first position, 0 when there is none
Find(t, S) ==
    IF \E i \in DOMAIN t : t[i] \in S
    THEN CHOOSE i \in DOMAIN t : t[i] \in S /\ \A j \in 1..(i - 1) : t[j] \notin S
    ELSE 0

\* str.rfind for a token of S: the last position, 0 when there is none
RFind(t, S) ==
    IF \E i \in DOMAIN t : t[i] \in S
    THEN CHOOSE i \in DOMAIN t : t[i] \in S /\ \A j \in (i + 1)..Len(t) : t[j] \notin S
    ELSE 0

\* response_content.split(opener)[1].split(fence)[0]: what follows the first
\* opener, up to the next fence of either kind (an opener begins with a fence)
FencedSpan(t) ==
    LET rest == SubSeq(t, Find(t, {"fence_json"}) + 1, Len(t))
        stop == Find(rest, {"fence", "fence_json"})
    IN  IF stop = 0 THEN rest ELSE SubSeq(rest, 1, stop - 1)

\* response_content[find("{") : rfind("}") + 1]
BraceSpan(t) == SubSeq(t, Find(t, {"{"}), RFind(t, {"}"}))

\* json.loads accepts the span: it is one JSON object
IsJsonObject(span) == span \in { <<"{", "}">>, <<"{", "kv", "}">> }

\* the span _parse_response hands to json.loads
JsonStr(t) ==
    IF "fence_json" \in {t[i] : i \in DOMAIN t} THEN FencedSpan(t)
    ELSE IF Find(t, {"{"}) # 0 /\ Find(t, {"}"}) # 0 THEN BraceSpan(t)
    ELSE << >>

\* the completion text t as _parse_response sees it
Completion(t) ==
    [id     |-> t,
     fence  |-> "fence_json" \in {t[i] : i \in DOMAIN t},
     braces |-> Find(t, {"{"}) # 0 /\ Find(t, {"}"}) # 0,
     json   |-> IF IsJsonObject(JsonStr(t)) THEN "object" ELSE "malformed",
     object |-> JsonStr(t),
     keys   |-> IF JsonStr(t) = <<"{", "kv", "}">> THEN RequiredKeys \cup {"prediction"} ELSE {},
     confidence |-> 80,
     points |-> IF JsonStr(t) = <<"{", "kv", "}">> THEN "iso" ELSE "none"]

(***************************************************************************)
(* The state of the program                                                *)
(***************************************************************************)
VARIABLES
    llm_service,    \* per agent: the completion service obtained at construction, or None
    inplace,        \* whether the list a node appends to is the channel's own list object
    uuids,          \* number of uuid4() values drawn so far
    mode,           \* "none", "stock" (analyze_stock) or "portfolio" (analyze_portfolio)
    portfolio_data, \* the holdings handed to analyze_portfolio
    portfolio_id,   \* the workflow_id drawn by analyze_portfolio, or None
    pc,             \* "idle", the node to run, "END", or "returned"
    awaiting,       \* the running agent is suspended in its completion call
    stock_data,     \* the running agent's local stock_data
    state,          \* the graph's channel values: the StockAnalysisState of the run
    returned,       \* what the orchestrator has returned to its caller, or None
    events,         \* history: the agents' starts and returns, in order
    endpoint,       \* who started the run: "none", "orchestrator" (a direct call) or "/analyze"
    db,             \* the persistence store: the repository calls made, in order
    response,       \* the HTTP response of the entry point, or None
    streaming_sessions, \* app.state.streaming_sessions: the registered session_data
    gens,           \* per client: the streaming generator serving its request
    runs,           \* per client: the analyze_stock call it has in flight on the shared orchestrator
    storage,        \* the checkpointer's storage: thread_id -> saved channel values
    response_content, \* the completion text handed to _parse_response, as tokens
    parsed,         \* what _parse_response returned for it, or None
    fanout          \* two stages started from the same record: the list they were handed, their returns

vars == <<llm_service, inplace, uuids, mode, portfolio_data, portfolio_id, pc,
          awaiting, stock_data, state, returned, events, endpoint, db, response,
          streaming_sessions, gens, runs, storage, response_content, parsed, fanout>>

(***************************************************************************)
(* Construction (StockAnalysisOrchestrator.__init__, BaseStockAgent        *)
(* .__init__, get_llm_service): the agents are built in pipeline order and *)
(* share one global service; a failed construction leaves llm_service None *)
(* for that agent and the next agent tries again, so the agents without a  *)
(* service are a prefix of the pipeline.                                   *)
(***************************************************************************)
NodeIndex(n) == CHOOSE i \in DOMAIN Nodes : Nodes[i] = n

AgentServices(failed) ==
    [n \in NodeSet |-> IF NodeIndex(n) <= failed THEN "None" ELSE "LLMService"]

(***************************************************************************)
(* Requests                                                                *)
(***************************************************************************)
Upper(s) ==
    CASE s = "aapl" -> "AAPL"
      [] s = "msft" -> "MSFT"
      [] OTHER      -> s

\* allocations are in tenths of a percent: 500 is 50.0%
Holding(s, a) == [symbol |-> s, allocation |-> a]

Portfolios ==
    { << Holding("AAPL", 500), Holding("", 300), Holding("msft", 200) >> }

RECURSIVE SelectSeq2(_, _)
\* the list comprehension / loop that keeps the holdings with a symbol
SelectSeq2(s, keep) ==
    IF s = << >> THEN << >>
    ELSE IF keep[Head(s)] THEN <<Head(s)>> \o SelectSeq2(Tail(s), keep)
    ELSE SelectSeq2(Tail(s), keep)

\* a loop that stops at the first holding it has to skip
PortfolioSymbolsStopsAtSkip(pd) ==
    IF \E i \in DOMAIN pd : pd[i].symbol = ""
        THEN SubSeq(pd, 1, (CHOOSE i \in DOMAIN pd : pd[i].symbol = "" /\ \A j \in 1..(i-1) : pd[j].symbol # "") - 1)
        ELSE pd

\* portfolio_symbols of analyze_portfolio: f"{symbol}({allocation}%)" per kept holding
PortfolioSymbols(pd) ==
    SelectSeq2(pd, [h \in {pd[i] : i \in DOMAIN pd} |-> h.symbol # ""])

\* symbol.upper() applied to f"Portfolio: {', '.join(portfolio_symbols)}"
UpperSummary(pd) ==
    [label |-> "PORTFOLIO",
     holdings |-> [i \in DOMAIN PortfolioSymbols(pd) |->
                     Holding(Upper(PortfolioSymbols(pd)[i].symbol), PortfolioSymbols(pd)[i].allocation)]]

StockRequest == [symbol |-> "AAPL", time_frequency |-> "1M", user_context |-> None]

\* the StockAnalysisRequest analyze_stock builds for /analyze: symbol.upper(),
\* and user_context "" when the request carried none
AnalyzeStockRequest(sym, freq) ==
    [symbol |-> Upper(sym), time_frequency |-> freq, user_context |-> Some("")]

PortfolioRequest(pd) ==
    [symbol |-> UpperSummary(pd), time_frequency |-> "1M",
     user_context |-> Some(<<"Portfolio Analysis Context", Len(PortfolioSymbols(pd))>>)]

(***************************************************************************)
(* initial_state of analyze_stock                                          *)
(***************************************************************************)
InitialState(request, workflow_id) ==
    [request              |-> request,
     finance_analysis     |-> None,
     geopolitics_analysis |-> None,
     legal_analysis       |-> None,
     quant_analysis       |-> None,
     final_analysis       |-> None,
     current_step         |-> "initialized",
     errors               |-> << >>,
     warnings             |-> << >>,
     analysis_result      |-> None,
     workflow_id          |-> workflow_id,
     started_at           |-> "started",
     completed_at         |-> None]

NoStockData == [keys |-> {}, current_price |-> "absent"]

\* the clients that may hold a streaming request open at the same time
Clients == {"a", "b"}

\* a client without a streaming request
NoGenerator == [kind |-> "none", session_id |-> 0, portfolio_data |-> << >>,
                at |-> "none", step |-> 0, out |-> << >>]

\* a client without a call of analyze_stock
NoRun == [pc |-> "idle", awaiting |-> FALSE, symbol |-> "", state |-> InitialState(StockRequest, 0),
          returned |-> None]

\* the stages that are started together from one record
ConcurrentNodes == {"finance_agent", "geopolitics_agent"}

\* no stages started together
NoFanOut ==
    [prior  |-> << >>,
     shared |-> << >>,
     nodes  |-> [n \in ConcurrentNodes |-> [at |-> "idle", errors |-> << >>, appended |-> << >>]]]

\* the orchestrator and the service after construction
InitProgram ==
    /\ \E failed \in 0..Len(Nodes) : llm_service = AgentServices(failed)
    /\ inplace \in BOOLEAN
    /\ uuids = 0
    /\ mode = "none"
    /\ portfolio_data = << >>
    /\ portfolio_id = None
    /\ pc = "idle"
    /\ awaiting = FALSE
    /\ stock_data = NoStockData
    /\ state = InitialState(StockRequest, 0)
    /\ returned = None
    /\ events = << >>
    /\ endpoint = "none"
    /\ db = << >>
    /\ response = None
    /\ streaming_sessions = {}
    /\ gens = [c \in Clients |-> NoGenerator]
    /\ runs = [c \in Clients |-> NoRun]
    /\ storage = << >>
    /\ fanout = NoFanOut

Init ==
    /\ InitProgram
    /\ response_content = << >>
    /\ parsed = None

(***************************************************************************)
(* The agents' analyze methods (stock_agents.py).  Each is one try block;  *)
(* its except branch appends one entry to state['errors'] and the method   *)
(* returns the state dict it was given, mutated.                           *)
(***************************************************************************)
ErrorEntry(n, exc) == [label |-> ErrorLabel(n), exc |-> exc]

\* except Exception as e: state['errors'].append(f"... failed: {str(e)}")
ExceptBranch(n, st, exc) == [st EXCEPT !.errors = Append(@, ErrorEntry(n, exc))]

\* AgentAnalysis(agent_type=self.agent_type, analysis=analysis_data['analysis'], ...)
AgentAnalysis(n, data) ==
    [agent_type  |-> AgentType(n),
     analysis    |-> data.analysis,
     confidence  |-> data.confidence,
     key_factors |-> data.key_factors]

\* The part of analyze that runs before the completion call is awaited: the
\* fetch, the quant agent's own history call, the prompt, and the attribute
\* lookup on self.llm_service.  "await" when the call is made, else the exception.
BeforeAwait(n, sd, history_raises, service) ==
    IF n = "quant_agent" /\ history_raises THEN "YFinanceError"
    ELSE IF RenderPrompt(n, sd) # "ok" THEN RenderPrompt(n, sd)
    ELSE IF service = "None" THEN "AttributeError"
    ELSE "await"

\* agent_analyses of the final agent: the filled slots' texts and its own text
FinalAgentAnalyses(st, data) ==
    [t \in {AgentType(m) : m \in {k \in NodeSet \ {"final_agent"} : st[SlotOf(k)] # None}}
            \cup {"financial_analyst"} |->
        IF t = "financial_analyst" THEN data.analysis
        ELSE st[SlotOf(CHOOSE m \in NodeSet : AgentType(m) = t)][1].analysis]

\* StockAnalysisResult(symbol=symbol, prediction=analysis_data['prediction'], ...)
StockAnalysisResult(st, data) ==
    [symbol             |-> st.request.symbol,
     prediction         |-> data.prediction[1],
     agent_analyses     |-> FinalAgentAnalyses(st, data),
     confidence_score   |-> data.confidence,
     factors_considered |-> data.key_factors]

\* The four guru agents after the completion call returned or raised.
GuruAfterAwait(n, st, outcome) ==
    IF outcome.raised # "no" THEN ExceptBranch(n, st, "RuntimeError")
    ELSE LET data == _parse_response(outcome.text) IN
         IF ~(RequiredKeys \subseteq data.keys) THEN ExceptBranch(n, st, "KeyError")
         ELSE [st EXCEPT ![SlotOf(n)] = Some(AgentAnalysis(n, data)),
                         !.current_step = StepLabel(n)]

\* FinancialAnalystAgent.analyze after the completion call: final_analysis is
\* stored before the StockAnalysisResult is built from analysis_data['prediction'].
FinalAfterAwait(n, st, outcome) ==
    IF outcome.raised # "no" THEN ExceptBranch(n, st, "RuntimeError")
    ELSE LET data == _parse_response(outcome.text) IN
         IF ~(RequiredKeys \subseteq data.keys) THEN ExceptBranch(n, st, "KeyError")
         ELSE LET st1 == [st EXCEPT ![SlotOf(n)] = Some(AgentAnalysis(n, data))] IN
              IF "prediction" \notin data.keys THEN ExceptBranch(n, st1, "KeyError")
              ELSE [st1 EXCEPT !.analysis_result = Some(StockAnalysisResult(st1, data)),
                               !.current_step = StepLabel(n),
                               !.completed_at = Some("completed")]

AfterAwait(n, st, outcome) ==
    IF n = "final_agent" THEN FinalAfterAwait(n, st, outcome)
    ELSE GuruAfterAwait(n, st, outcome)

(***************************************************************************)
(* The graph's state update.  A node returns the whole state dict; every   *)
(* key it holds is written to its channel.  errors and warnings are        *)
(* Annotated[List[str], add]: the channel becomes add(current, written).   *)
(* The other keys are plain: the channel becomes the written value.  The   *)
(* node appended to the list it was handed; when that list is the          *)
(* channel's own object (inplace) the channel's current value already      *)
(* holds the appended entries when the reducer runs.                       *)
(***************************************************************************)
add(a, b) == a \o b

ApplyWrites(channels, written) ==
    [written EXCEPT
        !.errors   = add(IF inplace THEN written.errors ELSE channels.errors, written.errors),
        !.warnings = add(IF inplace THEN written.warnings ELSE channels.warnings, written.warnings)]

(***************************************************************************)
(* Portfolio mode (orchestrator.py, _create_portfolio_result and the tail  *)
(* of analyze_portfolio)                                                   *)
(***************************************************************************)
Placeholder == <<"Analysis not available">>

SlotText(portfolio_state, n) ==
    IF portfolio_state[SlotOf(n)] # None THEN portfolio_state[SlotOf(n)][1].analysis
    ELSE Placeholder

\* The StockAnalysisResult built at orchestrator.py 140-152.  analysis_result is a
\* pydantic object: when it is set, .get('confidence_score', ...) on it raises
\* AttributeError, so this value exists only for a state without a result.
PortfolioResult(portfolio_state, pd) ==
    [symbol             |-> <<"Portfolio", Len(PortfolioSymbols(pd)), "stocks">>,
     prediction         |-> <<"portfolio_analysis", portfolio_state.request.time_frequency>>,
     agent_analyses     |-> [t \in {AgentType(n) : n \in NodeSet} |->
                               SlotText(portfolio_state, CHOOSE n \in NodeSet : AgentType(n) = t)],
     confidence_score   |-> 75,
     factors_considered |-> <<"portfolio_diversification", "multi_asset_analysis",
                              "risk_assessment", "allocation_optimization">>]

_create_portfolio_result(portfolio_state, pd) ==
    IF portfolio_state.analysis_result # None
    THEN [errors          |-> <<[label |-> "Portfolio result creation failed", exc |-> "AttributeError"]>>,
          analysis_result |-> None]
    ELSE [request              |-> portfolio_state.request,
          finance_analysis     |-> portfolio_state.finance_analysis,
          geopolitics_analysis |-> portfolio_state.geopolitics_analysis,
          legal_analysis       |-> portfolio_state.legal_analysis,
          quant_analysis       |-> portfolio_state.quant_analysis,
          final_analysis       |-> portfolio_state.final_analysis,
          current_step         |-> "analysis_complete",
          errors               |-> portfolio_state.errors,
          warnings             |-> portfolio_state.warnings,
          analysis_result      |-> Some(PortfolioResult(portfolio_state, pd)),
          started_at           |-> portfolio_state.started_at]

\* final_state["workflow_id"] = workflow_id; final_state["completed_at"] = now
AnalyzePortfolioReturn(portfolio_state, pd, workflow_id) ==
    [workflow_id |-> workflow_id, completed_at |-> Some("completed")]
        @@ _create_portfolio_result(portfolio_state, pd)

\* What the orchestrator hands back for the state analyze_stock produced.
ReturnValue(stock_state) ==
    IF mode = "portfolio"
    THEN AnalyzePortfolioReturn(stock_state, portfolio_data, portfolio_id[1])
    ELSE stock_state

\* self.checkpointer: the graph saves the channel values of a run under the
\* thread_id analyze_stock put in its config, which is the workflow_id it drew
checkpointer ==
    IF mode = "none" THEN {}
    ELSE {[thread_id |-> state.workflow_id, channel_values |-> state]}

\* get_workflow_state(workflow_id): the channel values of the checkpoint under
\* that thread_id, or the ValueError raised when there is none
get_workflow_state(workflow_id) ==
    IF \E cp \in checkpointer : cp.thread_id = workflow_id
    THEN Some((CHOOSE cp \in checkpointer : cp.thread_id = workflow_id).channel_values)
    ELSE None

\* The except branch of analyze_stock, applied to its own initial_state.
WorkflowFailed(initial_state) ==
    [initial_state EXCEPT
        !.errors       = Append(@, [label |-> "Workflow execution failed", exc |-> "GraphError"]),
        !.completed_at = Some("completed"),
        !.current_step = "workflow_failed"]

(***************************************************************************)
(* The /analyze entry point (main.py, analyze_stock).  The persistence     *)
(* store is modelled by the repository calls made on it, in order; a       *)
(* session row is keyed by the workflow_id it was created with.            *)
(***************************************************************************)
ValidFrequencies == {"1D", "1W", "1M", "3M", "6M", "1Y"}

\* the symbols and time frequencies a request may carry
Symbols == {"AAPL", "", "ABCDEFGHIJK"}

Frequencies == {"1M", "2M"}

\* len(request.symbol)
SymbolLen(sym) ==
    CASE sym = ""            -> 0
      [] sym = "AAPL"        -> 4
      [] sym = "ABCDEFGHIJK" -> 11

\* not (not request.symbol or len(request.symbol) > 10), and the frequency check
ValidAnalyzeRequest(sym, freq) ==
    /\ SymbolLen(sym) # 0
    /\ SymbolLen(sym) <= 10
    /\ freq \in ValidFrequencies

Call(op, arg, id) == [op |-> op, arg |-> arg, id |-> id]

\* create_session, the user_query message, and the update to processing
OpenSession(id) ==
    << Call("create_session", "pending", id),
       Call("create_message", "user_query", id),
       Call("update_session_status", "processing", id) >>

SlotFilled(final_state, n) == final_state[SlotOf(n)] # None

\* analysis_repo.create_analysis for each filled slot, in the order of the ifs
SaveAnalyses(final_state, id) ==
    LET filled == SelectSeq2(Nodes, [n \in NodeSet |-> SlotFilled(final_state, n)])
    IN  [i \in DOMAIN filled |-> Call("create_analysis", AgentType(filled[i]), id)]

\* error_repo.log_error for each entry of final_state['errors']
LogErrors(final_state, id) ==
    [i \in DOMAIN final_state.errors |-> Call("log_error", "analysis_error", id)]

HttpResponse(status, detail, workflow_id) ==
    [status |-> status, detail |-> detail, workflow_id |-> workflow_id]

\* prediction_repo.create_predictions: datetime.fromisoformat(pred['date']...) raises
\* ValueError for a date that is not an ISO date
create_predictions(predictions) == IF predictions = "iso" THEN "ok" ELSE "ValueError"

\* The handler from the return of orchestrator.analyze_stock to its response:
\* the repository calls it makes and the response it gives.
AfterAnalyzeStock(final_state, id) ==
    IF final_state.analysis_result = None
    THEN [calls    |-> LogErrors(final_state, id)
                         \o <<Call("update_session_status", "failed", id)>>,
          response |-> HttpResponse(500, "Analysis failed", None)]
    ELSE LET result == final_state.analysis_result[1] IN
         IF result.prediction.predictions # "none"
            /\ create_predictions(result.prediction.predictions) # "ok"
         THEN [calls    |-> SaveAnalyses(final_state, id)
                              \o << Call("log_error", "workflow_error", id),
                                    Call("update_session_status", "failed", id) >>,
               response |-> HttpResponse(500, "Analysis workflow failed", None)]
         ELSE [calls    |-> SaveAnalyses(final_state, id)
                              \o (IF result.prediction.predictions # "none"
                                  THEN <<Call("create_predictions", "predictions", id)>>
                                  ELSE << >>)
                              \o << Call("create_message", "prediction_result", id),
                                    Call("update_session_status", "completed", id) >>,
               response |-> HttpResponse(200, "ok", Some(final_state.workflow_id))]

\* What the run's end adds to the store and gives as response, by entry point.
Persisted(final_state) ==
    IF endpoint = "/analyze"
    THEN db \o AfterAnalyzeStock(final_state, db[1].id).calls
    ELSE db

Responded(final_state) ==
    IF endpoint = "/analyze"
    THEN Some(AfterAnalyzeStock(final_state, db[1].id).response)
    ELSE response

(***************************************************************************)
(* The streaming entry points (main.py): /analyze-portfolio-stream-init,   *)
(* /stream/{session_id}, /analyze-portfolio-stream and the generator       *)
(* stream_portfolio_analysis they both iterate.  A generator runs from one *)
(* yield to the next in one step; out is what it has yielded so far.       *)
(***************************************************************************)
\* the bounds of "99.0 <= total_allocation <= 101.0", in tenths of a percent
MinAllocationTotal == 990

MaxAllocationTotal == 1010

\* allocation totals of the portfolios a request may carry, in tenths of a percent
AllocationTotals == {800, 979, 985, 990, 1005, 1010, 1015, 1021, 1200}

\* the portfolios a request may carry: none, the same symbol twice, or two holdings
StreamPortfolios ==
    {<< >>, << Holding("AAPL", 500), Holding("AAPL", 500) >>}
        \cup {<< Holding("AAPL", t - 400), Holding("MSFT", 400) >> : t \in AllocationTotals}

RECURSIVE TotalAllocation(_)
\* sum(stock.get("allocation", 0) for stock in portfolio_data)
TotalAllocation(pd) ==
    IF pd = << >> THEN 0 ELSE Head(pd).allocation + TotalAllocation(Tail(pd))

\* The window with its bounds excluded.
AllocationStrictlyInside(total) ==
    MinAllocationTotal < total /\ total < MaxAllocationTotal

\* not (99.0 <= total_allocation <= 101.0) is rejected
AllocationInTolerance(total) ==
    MinAllocationTotal <= total /\ total <= MaxAllocationTotal

\* the agents list of stream_portfolio_analysis
StreamAgents ==
    <<"finance_guru", "geopolitics_guru", "legal_guru", "quant_dev", "financial_analyst">>

\* one yielded event: its 'type', the 'agent_id' it names ("" when it has none),
\* whether it carries a 'timestamp'
StreamEvent(type, agent, ts) == [type |-> type, agent |-> agent, timestamp |-> ts]

Emit(g, ev, at) == [g EXCEPT !.out = Append(@, ev), !.at = at]

\* the yields of stream_portfolio_analysis are made between these positions
InnerPositions ==
    {"status_update", "system_message", "agent_start", "agent_thinking", "agent_complete"}

\* The thinking event is left out: a stage goes from its start to its completion.
StreamSkipsThinking(g, raises) ==
    IF raises THEN Emit(g, StreamEvent("error", "", TRUE), "inner_error")
    ELSE CASE g.at = "status_update" ->
                Emit(g, StreamEvent("system_message", "", TRUE), "system_message")
           [] g.at = "system_message" ->
                [Emit(g, StreamEvent("agent_start", StreamAgents[1], TRUE), "agent_thinking")
                    EXCEPT !.step = 1]
           [] g.at = "agent_thinking" ->
                Emit(g, StreamEvent("agent_complete", StreamAgents[g.step], TRUE), "agent_complete")
           [] g.at = "agent_complete" ->
                IF g.step < Len(StreamAgents)
                THEN [Emit(g, StreamEvent("agent_start", StreamAgents[g.step + 1], TRUE), "agent_thinking")
                        EXCEPT !.step = g.step + 1]
                ELSE Emit(g, StreamEvent("final_result", "", TRUE), "final_result")

\* stream_portfolio_analysis from one yield to the next; an exception inside
\* its try block is caught by its own except, which yields an error event and
\* lets the generator end normally.
stream_portfolio_analysis(g, raises) ==
    IF raises THEN Emit(g, StreamEvent("error", "", TRUE), "inner_error")
    ELSE CASE g.at = "status_update" ->
                Emit(g, StreamEvent("system_message", "", TRUE), "system_message")
           [] g.at = "system_message" ->
                [Emit(g, StreamEvent("agent_start", StreamAgents[1], TRUE), "agent_start")
                    EXCEPT !.step = 1]
           [] g.at = "agent_start" ->
                Emit(g, StreamEvent("agent_thinking", StreamAgents[g.step], TRUE), "agent_thinking")
           [] g.at = "agent_thinking" ->
                Emit(g, StreamEvent("agent_complete", StreamAgents[g.step], TRUE), "agent_complete")
           [] g.at = "agent_complete" ->
                IF g.step < Len(StreamAgents)
                THEN [Emit(g, StreamEvent("agent_start", StreamAgents[g.step + 1], TRUE), "agent_start")
                        EXCEPT !.step = g.step + 1]
                ELSE Emit(g, StreamEvent("final_result", "", TRUE), "final_result")

\* what the agent_complete event of the i-th agent carries: the text of
\* generate_mock_agent_analysis, 0.75 + 0.05 per agent before it (in hundredths)
\* and 2000 + 500 per agent before it
AgentCompletePayload(i) ==
    [analysis           |-> <<"mock_analysis_of", StreamAgents[i]>>,
     confidence         |-> 75 + 5 * (i - 1),
     processing_time_ms |-> 2000 + 500 * (i - 1)]

\* the except branch of generate_sse_stream / generate_stream: one error event
OuterError(g) == Emit(g, StreamEvent("error", "", FALSE), "closed")

(***************************************************************************)
(* Portfolio creation and update (controllers/portfolio_controller.py,     *)
(* services/portfolio_service.py).  The request model's validator runs     *)
(* first (a failure is answered 422), then the service validates again (a  *)
(* ValueError is answered 400) and writes through the repository.          *)
(***************************************************************************)
\* 'Duplicate symbols not allowed': len(symbols) != len(set(symbols))
NoDuplicateSymbols(stocks) ==
    \A i, j \in DOMAIN stocks : stocks[i].symbol = stocks[j].symbol => i = j

\* PortfolioCreateRequest.validate_stocks / PortfolioUpdateRequest.validate_stocks
validate_stocks(v) ==
    /\ v # << >>
    /\ MinAllocationTotal <= TotalAllocation(v)
    /\ TotalAllocation(v) <= MaxAllocationTotal
    /\ NoDuplicateSymbols(v)

\* PortfolioStockData.__init__: the allocation of one stock is within 0..100%
PortfolioStockData(stock) ==
    /\ stock.symbol # ""
    /\ 0 <= stock.allocation
    /\ stock.allocation <= 1000

\* PortfolioService.validate_portfolio_allocation
validate_portfolio_allocation(stocks) ==
    /\ stocks # << >>
    /\ MinAllocationTotal <= TotalAllocation(stocks)
    /\ TotalAllocation(stocks) <= MaxAllocationTotal
    /\ NoDuplicateSymbols(stocks)

\* repository.add_portfolio_stock for each stock
AddStocks(stocks) ==
    [i \in DOMAIN stocks |-> Call("add_portfolio_stock", stocks[i].symbol, stocks[i].allocation)]

\* The response to a create or update request and the repository calls it made.
SavePortfolio(stocks, calls_before) ==
    IF ~validate_stocks(stocks)
    THEN [calls |-> << >>, response |-> HttpResponse(422, "validation error", None)]
    ELSE IF ~(\A i \in DOMAIN stocks : PortfolioStockData(stocks[i]))
            \/ ~validate_portfolio_allocation(stocks)
    THEN [calls |-> <<Call("rollback", "", 0)>>, response |-> HttpResponse(400, "ValueError", None)]
    ELSE [calls |-> calls_before \o AddStocks(stocks) \o <<Call("commit", "", 0)>>,
          response |-> HttpResponse(200, "ok", None)]

(***************************************************************************)
(* Actions                                                                 *)
(***************************************************************************)
\* One entry of the history: an agent started or returned, or ainvoke raised.
\* completion tells what the agent's completion call did: "not_called" (the
\* agent raised on its data before the call), "no_service", "raised", or
\* "returned"; text describes the returned text.
Event(what, n, failed, completion, text) ==
    [what |-> what, node |-> n, failed |-> failed, completion |-> completion,
     structured |-> text.json = "object" /\ (text.fence \/ text.braces),
     keys |-> text.keys]

\* An abort threshold: past three errors the graph goes straight to END.
RouteAbortsOnErrors(n, st) == IF Len(st.errors) > 3 THEN "END" ELSE Successor(n)

\* The edges are unconditional: the next node does not depend on the state.
Route(n, st) == Successor(n)

\* orchestrator.analyze_stock(symbol, time_frequency, user_context) up to ainvoke
AnalyzeStock ==
    /\ pc = "idle"
    /\ uuids' = uuids + 1
    /\ mode' = "stock"
    /\ state' = ApplyWrites(InitialState(StockRequest, 0), InitialState(StockRequest, uuids + 1))
    /\ pc' = EntryPoint
    /\ endpoint' = "orchestrator"
    /\ UNCHANGED <<fanout, response_content, parsed, runs, storage, streaming_sessions, gens, db, response, llm_service, inplace, portfolio_data, portfolio_id, awaiting,
                   stock_data, returned, events>>

\* POST /analyze: validation, then the session row and the call of
\* orchestrator.analyze_stock up to ainvoke; a rejected request gets its 400.
AnalyzeRequest ==
    /\ pc = "idle"
    /\ endpoint' = "/analyze"
    /\ \E sym \in Symbols, freq \in Frequencies :
        IF ValidAnalyzeRequest(sym, freq)
        THEN /\ db' = OpenSession(uuids + 1)
             /\ uuids' = uuids + 2
             /\ mode' = "stock"
             /\ state' = ApplyWrites(InitialState(AnalyzeStockRequest(sym, freq), 0),
                                     InitialState(AnalyzeStockRequest(sym, freq), uuids + 2))
             /\ pc' = EntryPoint
             /\ UNCHANGED response
        ELSE /\ response' = Some(HttpResponse(400, "Invalid request", None))
             /\ pc' = "rejected"
             /\ UNCHANGED <<db, uuids, mode, state>>
    /\ UNCHANGED <<fanout, response_content, parsed, runs, storage, streaming_sessions, gens, llm_service, inplace, portfolio_data,
                   portfolio_id, awaiting, stock_data, returned, events>>

\* orchestrator.analyze_portfolio(portfolio_data, ...) up to ainvoke inside analyze_stock
AnalyzePortfolio ==
    /\ pc = "idle"
    /\ \E pd \in Portfolios :
        /\ portfolio_data' = pd
        /\ state' = ApplyWrites(InitialState(PortfolioRequest(pd), 0),
                                InitialState(PortfolioRequest(pd), uuids + 2))
    /\ portfolio_id' = Some(uuids + 1)
    /\ uuids' = uuids + 2
    /\ mode' = "portfolio"
    /\ pc' = EntryPoint
    /\ endpoint' = "orchestrator"
    /\ UNCHANGED <<fanout, response_content, parsed, runs, storage, streaming_sessions, gens, db, response, llm_service, inplace, awaiting, stock_data, returned, events>>

\* The node pc starts and reaches its completion call, where it is suspended.
StageAwaits ==
    /\ pc \in NodeSet /\ ~awaiting
    /\ \E fetch \in FetchOutcomes, history_raises \in BOOLEAN :
        /\ BeforeAwait(pc, get_stock_data(fetch), history_raises, llm_service[pc]) = "await"
        /\ stock_data' = get_stock_data(fetch)
    /\ awaiting' = TRUE
    /\ events' = Append(events, Event("start", pc, FALSE, "none", NoText))
    /\ UNCHANGED <<fanout, response_content, parsed, runs, storage, streaming_sessions, gens, endpoint, db, response, llm_service, inplace, uuids, mode, portfolio_data, portfolio_id,
                   pc, state, returned>>

\* The node pc starts and raises before any completion call: it returns at once.
StageRaisesBeforeAwait ==
    /\ pc \in NodeSet /\ ~awaiting
    /\ \E fetch \in FetchOutcomes, history_raises \in BOOLEAN :
        LET exc == BeforeAwait(pc, get_stock_data(fetch), history_raises, llm_service[pc]) IN
        /\ exc # "await"
        /\ state' = ApplyWrites(state, ExceptBranch(pc, state, exc))
        /\ events' = events \o <<Event("start", pc, FALSE, "none", NoText),
                                  Event("return", pc, TRUE,
                                        IF exc = "AttributeError" THEN "no_service" ELSE "not_called",
                                        NoText)>>
    /\ pc' = Route(pc, state')
    /\ UNCHANGED <<fanout, response_content, parsed, runs, storage, streaming_sessions, gens, endpoint, db, response, llm_service, inplace, uuids, mode, portfolio_data, portfolio_id,
                   awaiting, stock_data, returned>>

\* The completion call of the suspended node returns or raises; the node finishes.
StageResumes ==
    /\ pc \in NodeSet /\ awaiting
    /\ \E outcome \in CompletionOutcomes :
        LET written == AfterAwait(pc, state, outcome) IN
        /\ state' = ApplyWrites(state, written)
        /\ events' = Append(events, Event("return", pc, written.errors # state.errors,
                                           IF outcome.raised # "no" THEN "raised" ELSE "returned",
                                           outcome.text))
    /\ pc' = Route(pc, state')
    /\ awaiting' = FALSE
    /\ stock_data' = NoStockData
    /\ UNCHANGED <<fanout, response_content, parsed, runs, storage, streaming_sessions, gens, endpoint, db, response, llm_service, inplace, uuids, mode, portfolio_data, portfolio_id, returned>>

\* The graph reached END: ainvoke returns the channel values.
GraphEnds ==
    /\ pc = "END"
    /\ returned' = Some(ReturnValue(state))
    /\ db' = Persisted(ReturnValue(state))
    /\ response' = Responded(ReturnValue(state))
    /\ pc' = "returned"
    /\ UNCHANGED <<fanout, response_content, parsed, runs, storage, streaming_sessions, gens, endpoint, llm_service, inplace, uuids, mode, portfolio_data, portfolio_id,
                   awaiting, stock_data, state, events>>

\* ainvoke raises (an error of the graph runtime: the agents catch their own).
GraphRaises ==
    /\ pc \in NodeSet \cup {"END"}
    /\ returned' = Some(ReturnValue(WorkflowFailed(InitialState(state.request, state.workflow_id))))
    /\ pc' = "returned"
    /\ awaiting' = FALSE
    /\ stock_data' = NoStockData
    /\ events' = Append(events, Event("raise", "ainvoke", TRUE, "none", NoText))
    /\ db' = Persisted(ReturnValue(WorkflowFailed(InitialState(state.request, state.workflow_id))))
    /\ response' = Responded(ReturnValue(WorkflowFailed(InitialState(state.request, state.workflow_id))))
    /\ UNCHANGED <<fanout, response_content, parsed, runs, storage, streaming_sessions, gens, endpoint, llm_service, inplace, uuids, mode, portfolio_data, portfolio_id, state>>

\* POST /analyze-portfolio-stream-init: validation, the session row, and the
\* session_data stored in app.state.streaming_sessions.
StreamInit ==
    /\ pc = "idle"
    /\ endpoint' = "/analyze-portfolio-stream-init"
    /\ \E pd \in StreamPortfolios :
        /\ portfolio_data' = pd
        /\ IF pd # << >> /\ AllocationInTolerance(TotalAllocation(pd))
           THEN /\ db' = Append(db, Call("create_session", "pending", uuids + 1))
                /\ uuids' = uuids + 1
                /\ streaming_sessions' = streaming_sessions \cup
                        {[session_id |-> uuids + 1, portfolio_data |-> pd]}
                /\ response' = Some(HttpResponse(200, "initialized", Some(uuids + 1)))
                /\ pc' = "streaming"
           ELSE /\ response' = Some(HttpResponse(400, "Invalid request", None))
                /\ pc' = "rejected"
                /\ UNCHANGED <<db, uuids, streaming_sessions>>
    /\ UNCHANGED <<fanout, response_content, parsed, runs, storage, gens, llm_service, inplace, mode, portfolio_id,
                   awaiting, stock_data, state, returned, events>>

\* GET /stream/{session_id}: generate_sse_stream up to its first yield.
StreamStart(c) ==
    /\ pc \in {"idle", "streaming"}
    /\ gens[c].kind = "none"
    /\ \E sid \in {0} \cup {sd.session_id : sd \in streaming_sessions}, db_raises \in BOOLEAN :
        LET g == [NoGenerator EXCEPT !.kind = "/stream", !.session_id = sid] IN
        IF \A sd \in streaming_sessions : sd.session_id # sid
        THEN /\ gens' = [gens EXCEPT ![c] = Emit(g, StreamEvent("error", "", FALSE), "closed")]
             /\ UNCHANGED db
        ELSE LET session_data == CHOOSE sd \in streaming_sessions : sd.session_id = sid
                 g1 == [g EXCEPT !.portfolio_data = session_data.portfolio_data]
             IN  IF db_raises
                 THEN /\ gens' = [gens EXCEPT ![c] = OuterError(g1)]
                      /\ UNCHANGED db
                 ELSE /\ db' = Append(db, Call("update_session_status", "processing", sid))
                      /\ gens' = [gens EXCEPT ![c] =
                                    Emit(g1, StreamEvent("session_start", "", FALSE), "session_start")]
    /\ pc' = "streaming"
    /\ UNCHANGED <<fanout, response_content, parsed, runs, storage, streaming_sessions, endpoint, response, uuids, llm_service, inplace, mode,
                   portfolio_data, portfolio_id, awaiting, stock_data, state, returned, events>>

\* POST /analyze-portfolio-stream: generate_stream up to its first yield.
PortfolioStreamStart(c) ==
    /\ pc = "idle"
    /\ gens[c].kind = "none"
    /\ \E pd \in StreamPortfolios :
        LET g == [NoGenerator EXCEPT !.kind = "/analyze-portfolio-stream",
                                     !.portfolio_data = pd, !.session_id = uuids + 1] IN
        IF pd = << >>
        THEN /\ gens' = [gens EXCEPT ![c] =
                            Emit([g EXCEPT !.session_id = 0], StreamEvent("error", "", FALSE), "closed")]
             /\ UNCHANGED <<db, uuids>>
        ELSE /\ db' = Append(db, Call("create_session", "pending", uuids + 1))
             /\ uuids' = uuids + 1
             /\ gens' = [gens EXCEPT ![c] =
                            Emit(g, StreamEvent("session_start", "", FALSE), "session_start")]
    /\ pc' = "streaming"
    /\ UNCHANGED <<fanout, response_content, parsed, runs, storage, streaming_sessions, endpoint, response, llm_service, inplace, mode,
                   portfolio_data, portfolio_id, awaiting, stock_data, state, returned, events>>

\* The generator of client c is resumed and runs to its next yield or to its end.
StreamNext(c) ==
    /\ pc = "streaming"
    /\ gens[c].at \notin {"none", "closed"}
    /\ \E raises \in BOOLEAN :
        LET g == gens[c] IN
        CASE g.at = "session_start" ->
                /\ ~raises
                /\ gens' = [gens EXCEPT ![c] = Emit(g, StreamEvent("user_message", "", TRUE), "user_message")]
                /\ UNCHANGED <<db, streaming_sessions>>
          [] g.at = "user_message" ->
                \* /analyze-portfolio-stream sets the row to processing here
                IF g.kind = "/stream"
                THEN /\ ~raises
                     /\ gens' = [gens EXCEPT ![c] = Emit(g, StreamEvent("status_update", "", FALSE), "status_update")]
                     /\ UNCHANGED <<db, streaming_sessions>>
                ELSE IF raises
                THEN /\ gens' = [gens EXCEPT ![c] = OuterError(g)]
                     /\ UNCHANGED <<db, streaming_sessions>>
                ELSE /\ db' = Append(db, Call("update_session_status", "processing", g.session_id))
                     /\ gens' = [gens EXCEPT ![c] = Emit(g, StreamEvent("status_update", "", FALSE), "status_update")]
                     /\ UNCHANGED streaming_sessions
          [] g.at \in InnerPositions ->
                /\ gens' = [gens EXCEPT ![c] = stream_portfolio_analysis(g, raises)]
                /\ UNCHANGED <<db, streaming_sessions>>
          [] g.at \in {"final_result", "inner_error"} ->
                \* the inner generator is exhausted: "Complete session"
                IF raises
                THEN /\ gens' = [gens EXCEPT ![c] = OuterError(g)]
                     /\ UNCHANGED <<db, streaming_sessions>>
                ELSE /\ db' = Append(db, Call("update_session_status", "completed", g.session_id))
                     /\ gens' = [gens EXCEPT ![c] = Emit(g, StreamEvent("session_complete", "", FALSE), "session_complete")]
                     /\ UNCHANGED streaming_sessions
          [] g.at = "session_complete" ->
                \* /stream deletes its session_data; then the generator ends
                /\ ~raises
                /\ gens' = [gens EXCEPT ![c].at = "closed"]
                /\ streaming_sessions' =
                        IF g.kind = "/stream"
                        THEN {sd \in streaming_sessions : sd.session_id # g.session_id}
                        ELSE streaming_sessions
                /\ UNCHANGED db
    /\ UNCHANGED <<fanout, response_content, parsed, runs, storage, pc, endpoint, response, uuids, llm_service, inplace, mode,
                   portfolio_data, portfolio_id, awaiting, stock_data, state, returned, events>>

\* The streaming and portfolio entry points do not use the orchestrator: their
\* runs are explored on their own, from the service as constructed.
InitStream ==
    /\ Init
    /\ llm_service = AgentServices(0)
    /\ inplace = FALSE

\* PortfolioController.create_portfolio
CreatePortfolio ==
    /\ pc = "idle"
    /\ endpoint' = "create_portfolio"
    /\ \E stocks \in StreamPortfolios :
        LET done == SavePortfolio(stocks, <<Call("create_portfolio", "", 0)>>) IN
        /\ portfolio_data' = stocks
        /\ db' = db \o done.calls
        /\ response' = Some(done.response)
        /\ pc' = IF done.response.status = 200 THEN "portfolios" ELSE "rejected"
    /\ UNCHANGED <<fanout, response_content, parsed, runs, storage, streaming_sessions, gens, uuids, llm_service, inplace, mode, portfolio_id,
                   awaiting, stock_data, state, returned, events>>

\* PortfolioController.update_portfolio, of the portfolio that exists, once
UpdatePortfolio ==
    /\ pc = "portfolios"
    /\ endpoint = "create_portfolio"
    /\ endpoint' = "update_portfolio"
    /\ \E stocks \in StreamPortfolios :
        LET done == SavePortfolio(stocks, << Call("update_portfolio", "", 0),
                                             Call("remove_all_portfolio_stocks", "", 0) >>) IN
        /\ portfolio_data' = stocks
        /\ db' = db \o done.calls
        /\ response' = Some(done.response)
    /\ UNCHANGED <<fanout, response_content, parsed, runs, storage, pc, streaming_sessions, gens, uuids, llm_service, inplace, mode, portfolio_id,
                   awaiting, stock_data, state, returned, events>>

NextStream ==
    \/ CreatePortfolio
    \/ UpdatePortfolio
    \/ StreamInit
    \/ \E c \in Clients : StreamStart(c)
    \/ \E c \in Clients : PortfolioStreamStart(c)
    \/ \E c \in Clients : StreamNext(c)

SpecStream == InitStream /\ [][NextStream]_vars

(***************************************************************************)
(* Two clients on the shared orchestrator (main.py 48-49): each call of    *)
(* analyze_stock has its own initial_state and its own graph run; the      *)
(* agents and the checkpointer are the orchestrator's and are shared.      *)
(***************************************************************************)
\* a workflow_id that is the same for every call
uuid4Constant(drawn) == 1

\* str(uuid.uuid4()): a value no earlier call has drawn
uuid4(drawn) == drawn + 1

\* the symbols the two clients ask for
RunSymbols == {"AAPL", "msft"}

\* what a completion call does in these runs: one good answer, one failure
RunOutcomes ==
    {o \in CompletionOutcomes : o.raised = "provider_error" \/ o.text.id = "fenced"}

\* the checkpointer saving the channel values of a thread
Put(saved, thread_id, channel_values) ==
    [k \in DOMAIN saved \cup {thread_id} |->
        IF k = thread_id THEN channel_values ELSE saved[k]]

\* analyze_stock(symbol, ...) up to ainvoke, which saves the input
RunStarts(c) ==
    /\ pc = "idle"
    /\ runs[c].pc = "idle"
    /\ \E sym \in RunSymbols :
        LET initial_state == InitialState(AnalyzeStockRequest(sym, "1M"), uuid4(uuids))
            channels == ApplyWrites(InitialState(AnalyzeStockRequest(sym, "1M"), 0), initial_state)
        IN  /\ runs' = [runs EXCEPT ![c] = [pc |-> EntryPoint, awaiting |-> FALSE, symbol |-> sym,
                                            state |-> channels, returned |-> None]]
            /\ storage' = Put(storage, initial_state.workflow_id, channels)
    /\ uuids' = uuids + 1
    /\ UNCHANGED <<fanout, response_content, parsed, llm_service, inplace, mode, portfolio_data, portfolio_id, pc, awaiting,
                   stock_data, state, returned, events, endpoint, db, response,
                   streaming_sessions, gens>>

\* the node of c's run starts and is suspended in its completion call
RunStageAwaits(c) ==
    /\ runs[c].pc \in NodeSet /\ ~runs[c].awaiting
    /\ BeforeAwait(runs[c].pc, get_stock_data("ok"), FALSE, llm_service[runs[c].pc]) = "await"
    /\ runs' = [runs EXCEPT ![c].awaiting = TRUE]
    /\ UNCHANGED <<fanout, response_content, parsed, storage, llm_service, inplace, uuids, mode, portfolio_data, portfolio_id, pc,
                   awaiting, stock_data, state, returned, events, endpoint, db, response,
                   streaming_sessions, gens>>

\* the completion call of c's node returns or raises; the node returns its
\* state, the graph applies it and saves the thread's channel values
RunStageResumes(c) ==
    /\ runs[c].pc \in NodeSet /\ runs[c].awaiting
    /\ \E outcome \in RunOutcomes :
        LET channels == ApplyWrites(runs[c].state, AfterAwait(runs[c].pc, runs[c].state, outcome))
        IN  /\ runs' = [runs EXCEPT ![c].state = channels,
                                    ![c].pc = Route(runs[c].pc, channels),
                                    ![c].awaiting = FALSE]
            /\ storage' = Put(storage, runs[c].state.workflow_id, channels)
    /\ UNCHANGED <<fanout, response_content, parsed, llm_service, inplace, uuids, mode, portfolio_data, portfolio_id, pc,
                   awaiting, stock_data, state, returned, events, endpoint, db, response,
                   streaming_sessions, gens>>

\* c's graph reached END: ainvoke returns the channel values
RunEnds(c) ==
    /\ runs[c].pc = "END"
    /\ runs' = [runs EXCEPT ![c].returned = Some(runs[c].state), ![c].pc = "returned"]
    /\ UNCHANGED <<fanout, response_content, parsed, storage, llm_service, inplace, uuids, mode, portfolio_data, portfolio_id, pc,
                   awaiting, stock_data, state, returned, events, endpoint, db, response,
                   streaming_sessions, gens>>

\* c's ainvoke raises: the except branch of analyze_stock on its own initial_state
RunRaises(c) ==
    /\ runs[c].pc \in NodeSet \cup {"END"}
    /\ runs' = [runs EXCEPT
                  ![c].returned = Some(WorkflowFailed(InitialState(runs[c].state.request,
                                                                   runs[c].state.workflow_id))),
                  ![c].pc = "returned",
                  ![c].awaiting = FALSE]
    /\ UNCHANGED <<fanout, response_content, parsed, storage, llm_service, inplace, uuids, mode, portfolio_data, portfolio_id, pc,
                   awaiting, stock_data, state, returned, events, endpoint, db, response,
                   streaming_sessions, gens>>

InitRuns ==
    /\ Init
    /\ llm_service = AgentServices(0)
    /\ inplace = FALSE

NextRuns ==
    \/ \E c \in Clients : RunStarts(c)
    \/ \E c \in Clients : RunStageAwaits(c)
    \/ \E c \in Clients : RunStageResumes(c)
    \/ \E c \in Clients : RunEnds(c)
    \/ \E c \in Clients : RunRaises(c)

SpecRuns == InitRuns /\ [][NextRuns]_vars

(***************************************************************************)
(* _parse_response on its own: a completion text comes in, the method      *)
(* returns.                                                                *)
(***************************************************************************)
ParseResponse ==
    /\ parsed = None
    /\ parsed' = Some(_parse_response(Completion(response_content)))
    /\ UNCHANGED <<fanout, response_content, runs, storage, llm_service, inplace, uuids, mode, portfolio_data,
                   portfolio_id, pc, awaiting, stock_data, state, returned, events, endpoint,
                   db, response, streaming_sessions, gens>>

InitParse ==
    /\ InitProgram
    /\ llm_service = AgentServices(0)
    /\ inplace = FALSE
    /\ response_content \in ResponseContents
    /\ parsed = None

NextParse == ParseResponse

SpecParse == InitParse /\ [][NextParse]_vars

(***************************************************************************)
(* The errors channel under two stages run in one step (state.py 47-48:    *)
(* Annotated[List[str], add]).  Both stages are handed the record as it    *)
(* stands; each returns the whole state, errors list included; the graph   *)
(* applies add(channel, returned) for each of them once both have          *)
(* returned, in either order.  The list a stage appends to is the          *)
(* channel's own object (inplace) or a copy of it.                         *)
(***************************************************************************)
\* what the errors list may hold when the two stages start
PriorErrors ==
    LET e == {ErrorEntry("legal_agent", "RuntimeError"), ErrorEntry("quant_agent", "RuntimeError")}
    IN  {<< >>} \cup {<<x>> : x \in e} \cup {<<x, y>> : x, y \in e}

\* the two stages start from the same record
FanOut ==
    /\ pc = "idle"
    /\ \E prior \in PriorErrors :
        /\ state' = [state EXCEPT !.errors = prior]
        /\ fanout' = [prior  |-> prior,
                      shared |-> prior,
                      nodes  |-> [n \in ConcurrentNodes |->
                                    [at |-> "running", errors |-> << >>, appended |-> << >>]]]
    /\ pc' = "fan_out"
    /\ UNCHANGED <<response_content, parsed, runs, storage, llm_service, inplace, uuids, mode,
                   portfolio_data, portfolio_id, awaiting, stock_data, returned, events, endpoint,
                   db, response, streaming_sessions, gens>>

\* the list stage n holds when it returns: the shared object, or its own copy
HandedErrors(n) == IF inplace THEN fanout.shared ELSE fanout.prior

\* stage n runs to its return; what it appended lands in the list it was handed
BranchReturns(n) ==
    /\ pc = "fan_out"
    /\ fanout.nodes[n].at = "running"
    /\ \E outcome \in RunOutcomes :
        LET written  == AfterAwait(n, [state EXCEPT !.errors = HandedErrors(n)], outcome)
            appended == SubSeq(written.errors, Len(HandedErrors(n)) + 1, Len(written.errors))
        IN  /\ fanout' = [fanout EXCEPT
                            !.shared = IF inplace THEN written.errors ELSE @,
                            !.nodes[n] = [at |-> "returned", errors |-> written.errors,
                                          appended |-> appended]]
            /\ state' = [state EXCEPT !.errors = IF inplace THEN written.errors ELSE @]
    /\ UNCHANGED <<response_content, parsed, runs, storage, llm_service, inplace, uuids, mode,
                   portfolio_data, portfolio_id, pc, awaiting, stock_data, returned, events,
                   endpoint, db, response, streaming_sessions, gens>>

\* the errors list stage n returned, as it reads when the graph merges it
ReturnedErrors(n) == IF inplace THEN fanout.shared ELSE fanout.nodes[n].errors

\* the graph applies stage n's returned errors to the channel with the reducer
BranchMerged(n) ==
    /\ pc = "fan_out"
    /\ \A m \in ConcurrentNodes : fanout.nodes[m].at # "running"
    /\ fanout.nodes[n].at = "returned"
    /\ state' = [state EXCEPT !.errors = add(@, ReturnedErrors(n))]
    /\ fanout' = [fanout EXCEPT !.nodes[n].at = "merged"]
    /\ UNCHANGED <<response_content, parsed, runs, storage, llm_service, inplace, uuids, mode,
                   portfolio_data, portfolio_id, pc, awaiting, stock_data, returned, events,
                   endpoint, db, response, streaming_sessions, gens>>

InitMerge ==
    /\ Init
    /\ llm_service = AgentServices(0)

NextMerge ==
    \/ FanOut
    \/ \E n \in ConcurrentNodes : BranchReturns(n)
    \/ \E n \in ConcurrentNodes : BranchMerged(n)

SpecMerge == InitMerge /\ [][NextMerge]_vars

Next ==
    \/ AnalyzeStock
    \/ AnalyzeRequest
    \/ AnalyzePortfolio
    \/ StageAwaits
    \/ StageRaisesBeforeAwait
    \/ StageResumes
    \/ GraphEnds
    \/ GraphRaises

Spec == Init /\ [][Next]_vars

(***************************************************************************)
(* Properties                                                              *)
(***************************************************************************)
PipelineOrder == <<"finance_agent", "geopolitics_agent", "legal_agent", "quant_agent", "final_agent">>

Position(n) == CHOOSE i \in DOMAIN PipelineOrder : PipelineOrder[i] = n

IsStageEvent(e) == e.what # "raise"

\* the starts and returns of the agents, in the order they happened
StageEvents == SelectSeq(events, IsStageEvent)

HasReturned(n) == \E i \in DOMAIN events : events[i].what = "return" /\ events[i].node = n

HasFailed(n) ==
    \E i \in DOMAIN events : events[i].what = "return" /\ events[i].node = n /\ events[i].failed

GraphRaised == \E i \in DOMAIN events : events[i].what = "raise"

\* the graph ran to END (and ainvoke did not raise)
PipelineEnded == pc = "END" \/ (pc = "returned" /\ ~GraphRaised)

C2_NoSkipping ==
    /\ pc \in NodeSet => ENABLED (StageAwaits \/ StageRaisesBeforeAwait \/ StageResumes)
    /\ \A k, m \in NodeSet :
        (HasFailed(k) /\ Position(k) < Position(m)
            /\ (PipelineEnded \/ (pc \in NodeSet /\ Position(m) < Position(pc))))
        => HasReturned(m)

\* the four gurus failed in the three ways (no service, completion raised,
\* unusable data or text) and the Consolidator still ran
C2_Witness ==
    /\ pc = "END"
    /\ \A n \in NodeSet \ {"final_agent"} : HasFailed(n)
    /\ HasReturned("final_agent")
    /\ Len(state.errors) > 3
    /\ \E i, j \in DOMAIN events :
        /\ events[i].completion = "no_service"
        /\ events[j].completion = "raised"

\* how many entries of errs carry the label
CountLabel(errs, label) == Cardinality({i \in DOMAIN errs : errs[i].label = label})

LastEvent(evs) == evs[Len(evs)]

\* this step is the return of agent n
StageReturnsInStep(n) ==
    /\ pc = n
    /\ Len(events') > Len(events)
    /\ LastEvent(events').what = "return"
    /\ LastEvent(events').node = n

\* C3: when the pipeline has ended, errors holds exactly one entry for every
\* stage that failed and none for a stage that did not: the entry a failing
\* stage added was neither lost nor repeated on its way through the later stages.
C3_OneEntryPerFailedStage ==
    PipelineEnded =>
        \A n \in NodeSet :
            CountLabel(state.errors, ErrorLabel(n)) = (IF HasFailed(n) THEN 1 ELSE 0)

\* C4: a step in which a stage fails leaves that stage's slot empty and changes
\* no field of the record other than errors.
C4_FailedStageFrame ==
    [][\A n \in NodeSet :
        (StageReturnsInStep(n) /\ LastEvent(events').failed)
        => /\ state'[SlotOf(n)] = None
           /\ \A f \in DOMAIN state \ {"errors"} : state'[f] = state[f]]_vars

\* C5: when the pipeline has ended, the Consolidator having run, completed_at
\* is set, whether or not a result was produced.
C5_CompletedAtSetAtEnd == PipelineEnded => state.completed_at # None

\* C6: if the pipeline ended without a result, what the caller gets back has
\* no analysis result and a non-empty errors list, in both modes.
C6_NoResultForFailedRun ==
    (pc = "returned" /\ ~GraphRaised /\ state.analysis_result = None)
    => (returned[1].analysis_result = None /\ returned[1].errors # << >>)

\* C7: a stage whose completion call returned text without parseable structured
\* data has written its slot from the raw text (confidence 0.5, a sentinel key
\* factor) and has no entry in errors; for the Consolidator the run has a result.
C7_UnparseableDegrades ==
    \A i \in DOMAIN events :
        (events[i].what = "return" /\ events[i].completion = "returned" /\ ~events[i].structured)
        => /\ state[SlotOf(events[i].node)] # None
           /\ state[SlotOf(events[i].node)][1].analysis[1] = "raw"
           /\ state[SlotOf(events[i].node)][1].confidence = 50
           /\ state[SlotOf(events[i].node)][1].key_factors \in {<<"parsing_error">>, <<"unknown_error">>}
           /\ CountLabel(state.errors, ErrorLabel(events[i].node)) = 0
           /\ (events[i].node = "final_agent" => state.analysis_result # None)

\* C8: a stage whose fetch raised or brought no price, and whose completion
\* call is not at fault (it returned a complete parseable object, or was not
\* even reached), returns with its slot filled and no entry of its own in errors.
C8_FetchFailureDoesNotStop ==
    [][\A n \in NodeSet :
        (/\ StageReturnsInStep(n)
         /\ \/ /\ awaiting
               /\ stock_data.current_price # "number"
               /\ LastEvent(events').completion = "returned"
               /\ LastEvent(events').structured
               /\ RequiredKeys \cup {"prediction"} \subseteq LastEvent(events').keys
            \/ /\ ~awaiting
               /\ LastEvent(events').completion = "not_called")
        => /\ state'[SlotOf(n)] # None
           /\ CountLabel(state'.errors, ErrorLabel(n)) = 0]_vars

\* C9: a stage whose fetch raised has appended an entry to warnings by the time
\* it returns.
C9_FetchFailureWarns ==
    [][\A n \in NodeSet :
        (StageReturnsInStep(n) /\ awaiting /\ "error" \in stock_data.keys)
        => Len(state'.warnings) > Len(state.warnings)]_vars

OwnKind ==
    [finance_analysis     |-> "finance_guru",
     geopolitics_analysis |-> "geopolitics_guru",
     legal_analysis       |-> "legal_guru",
     quant_analysis       |-> "quant_dev",
     final_analysis       |-> "financial_analyst"]

\* C10: every slot is empty or holds an analysis of its own kind, and a slot
\* once filled keeps its value for the rest of the run.
C10_SlotsOwnKindWrittenOnce ==
    /\ [](\A k \in DOMAIN OwnKind : state[k] = None \/ state[k][1].agent_type = OwnKind[k])
    /\ [][\A k \in DOMAIN OwnKind : state[k] # None => state'[k] = state[k]]_vars

C10_Witness == pc = "END" /\ \A k \in DOMAIN OwnKind : state[k] # None

\* C11: after every stage returns, successfully or not, current_step names
\* that stage; so at the end of the run it names the last stage that executed.
C11_CurrentStepNamesLastStage ==
    [][\A n \in NodeSet :
        StageReturnsInStep(n) => state'.current_step = StepLabel(n)]_vars

\* every stage of the run returned without failing
AllStagesSucceeded == \A n \in NodeSet : HasReturned(n) /\ ~HasFailed(n)

\* C12: when every stage succeeded, the result's agent_analyses has exactly the
\* five stage kinds as keys, each holding that stage's own text and not the
\* placeholder, and the result's confidence_score lies between 0 and 1
\* (0 and 100 hundredths) whatever confidence the completion text carried.
C12_FullResultWellFormed ==
    (PipelineEnded /\ AllStagesSucceeded) =>
        /\ state.analysis_result # None
        /\ DOMAIN state.analysis_result[1].agent_analyses = {AgentType(n) : n \in NodeSet}
        /\ \A n \in NodeSet :
            /\ state.analysis_result[1].agent_analyses[AgentType(n)] = state[SlotOf(n)][1].analysis
            /\ state.analysis_result[1].agent_analyses[AgentType(n)] # Placeholder
        /\ state.analysis_result[1].confidence_score >= 0
        /\ state.analysis_result[1].confidence_score <= 100

\* C13: when a run hands back a result although some of the first four slots
\* are empty, the result's agent_analyses has an entry for each of the five
\* stage kinds, and the entry of every stage whose slot is empty is the
\* placeholder.
C13_PlaceholderForEmptySlots ==
    (/\ pc = "returned" /\ ~GraphRaised
     /\ returned[1].analysis_result # None
     /\ \E n \in NodeSet \ {"final_agent"} : returned[1][SlotOf(n)] = None)
    => /\ DOMAIN returned[1].analysis_result[1].agent_analyses = {AgentType(n) : n \in NodeSet}
       /\ \A n \in NodeSet :
            returned[1][SlotOf(n)] = None
            => returned[1].analysis_result[1].agent_analyses[AgentType(n)] = Placeholder

\* the status of the session row: what the last call that sets it has set
StatusCalls == SelectSeq(db, LAMBDA c : c.op \in {"create_session", "update_session_status"})

SessionStatus == StatusCalls[Len(StatusCalls)].arg

\* C14: when /analyze has answered a run, a final record with a result was
\* answered as success and its session is completed, whatever errors holds; a
\* final record without a result was answered as a failure, its session is
\* failed and was never set to completed.
C14_ResultDecidesOutcome ==
    (endpoint = "/analyze" /\ pc = "returned") =>
        IF returned[1].analysis_result # None
        THEN response[1].status = 200 /\ SessionStatus = "completed"
        ELSE /\ response[1].status = 500
             /\ SessionStatus = "failed"
             /\ \A i \in DOMAIN StatusCalls : StatusCalls[i].arg # "completed"

(***************************************************************************)
(* Properties of the streams                                               *)
(***************************************************************************)
\* the kind of an event and the stage it names
KindOf(e) == <<e.type, e.agent>>

Kinds(out) == [i \in DOMAIN out |-> KindOf(out[i])]

HasError(out) == \E i \in DOMAIN out : out[i].type = "error"

IsPrefix(a, b) == Len(a) <= Len(b) /\ \A i \in DOMAIN a : a[i] = b[i]

\* agent_start, agent_thinking, agent_complete for each stage kind in pipeline order
StageTriples ==
    [i \in 1..(3 * Len(PipelineOrder)) |->
        << (CASE i % 3 = 1 -> "agent_start" [] i % 3 = 2 -> "agent_thinking" [] OTHER -> "agent_complete"),
           AgentType(PipelineOrder[(i + 2) \div 3]) >>]

\* the sequence as the claim has it
ClaimedStream ==
    << <<"session_start", "">>, <<"user_message", "">>, <<"status_update", "">> >>
        \o StageTriples \o << <<"final_result", "">>, <<"session_complete", "">> >>

\* the sequence with the system_message event that precedes the first stage
StreamWithSystemMessage ==
    << <<"session_start", "">>, <<"user_message", "">>, <<"status_update", "">>,
       <<"system_message", "">> >>
        \o StageTriples \o << <<"final_result", "">>, <<"session_complete", "">> >>

\* C15 as stated: a stream without an error event is, while it runs, a prefix
\* of session_start, user_message, status_update, the three events of each
\* stage in pipeline order, final_result, session_complete, and is exactly
\* that sequence when it has ended; no other event kind occurs.
C15_StreamOrderAsStated ==
    \A c \in Clients :
        ~HasError(gens[c].out) =>
            /\ IsPrefix(Kinds(gens[c].out), ClaimedStream)
            /\ (gens[c].at = "closed" /\ gens[c].out # << >>)
                    => Kinds(gens[c].out) = ClaimedStream

\* C15, amended: the same with one system_message event between
\* status_update(processing) and the first agent_start.
C15_StreamOrder ==
    \A c \in Clients :
        ~HasError(gens[c].out) =>
            /\ IsPrefix(Kinds(gens[c].out), StreamWithSystemMessage)
            /\ (gens[c].at = "closed" /\ gens[c].out # << >>)
                    => Kinds(gens[c].out) = StreamWithSystemMessage

C15_Witness ==
    \E c \in Clients :
        /\ gens[c].at = "closed"
        /\ ~HasError(gens[c].out)
        /\ Len(gens[c].out) = Len(StreamWithSystemMessage)
        /\ gens[c].out[Len(gens[c].out)].type = "session_complete"

\* C16: in a stream in which an error was raised, the error event is the last
\* event: no session_complete is emitted in that stream and no event of any
\* kind follows the error event.
C16_ErrorEndsStream ==
    \A c \in Clients :
        \A i \in DOMAIN gens[c].out :
            gens[c].out[i].type = "error" =>
                /\ i = Len(gens[c].out)
                /\ \A j \in DOMAIN gens[c].out : gens[c].out[j].type # "session_complete"

StageEventTypes == {"agent_start", "agent_thinking", "agent_complete"}

\* C17: a stream over a portfolio whose allocation total is out of tolerance
\* (below 98% or above 102%, so under either window) holds no stage event:
\* the portfolio was rejected before any stage executed.
C17_OutOfToleranceRejected ==
    \A c \in Clients :
        (/\ gens[c].kind # "none"
         /\ \/ TotalAllocation(gens[c].portfolio_data) < 980
            \/ TotalAllocation(gens[c].portfolio_data) > 1020)
        => \A i \in DOMAIN gens[c].out : gens[c].out[i].type \notin StageEventTypes

\* the entry points that validate the allocation total of their payload
ValidatingEndpoints == {"/analyze-portfolio-stream-init", "create_portfolio", "update_portfolio"}

\* a payload that is not rejected for another reason than its total
WellFormedStocks(stocks) ==
    /\ stocks # << >>
    /\ NoDuplicateSymbols(stocks)
    /\ \A i \in DOMAIN stocks : PortfolioStockData(stocks[i])

OutOfTolerance(pd) == TotalAllocation(pd) < 980 \/ TotalAllocation(pd) > 1020

SessionRows == {i \in DOMAIN db : db[i].op = "create_session"}

\* C19: a portfolio request whose allocation total is out of tolerance starts
\* nothing: no session row is created for it, through stream initialisation
\* and through /analyze-portfolio-stream alike.
C19_InvalidRequestStartsNothing ==
    /\ (endpoint = "/analyze-portfolio-stream-init" /\ OutOfTolerance(portfolio_data))
            => SessionRows = {}
    /\ \A c \in Clients :
        (gens[c].kind = "/analyze-portfolio-stream" /\ OutOfTolerance(gens[c].portfolio_data))
            => SessionRows = {}

\* how many times agent n was started in the run
Starts(n) == Cardinality({i \in DOMAIN events : events[i].what = "start" /\ events[i].node = n})

\* C20: analyze_portfolio over N holdings has started each of the five stages
\* exactly once when it returns, and when the pipeline produced a result it
\* returns one result whose symbol is Portfolio_N_stocks, N the number of
\* holdings handed in.
C20_CompositeRunsOnce ==
    (mode = "portfolio" /\ pc = "returned" /\ ~GraphRaised) =>
        /\ \A n \in NodeSet : Starts(n) = 1
        /\ state.analysis_result # None =>
            /\ returned[1].analysis_result # None
            /\ returned[1].analysis_result[1].symbol = <<"Portfolio", Len(portfolio_data), "stocks">>

RECURSIVE IsSubsequence(_, _)
\* the entries of a occur in b, in the order of a
IsSubsequence(a, b) ==
    IF a = << >> THEN TRUE
    ELSE IF b = << >> THEN FALSE
    ELSE IF Head(a) = Head(b) THEN IsSubsequence(Tail(a), Tail(b))
    ELSE IsSubsequence(a, Tail(b))

\* the identifier of the request the pipeline is running on
Identifier == state.request.symbol

\* the holdings of pd that carry a symbol, the symbol in upper case
NamedHoldings(pd) ==
    LET named == SelectSeq(pd, LAMBDA h : h.symbol # "")
    IN  [i \in DOMAIN named |-> Holding(Upper(named[i].symbol), named[i].allocation)]

\* C21 as stated: for a portfolio whose allocations sum to 100%, the identifier
\* of the request handed to the pipeline contains every holding's symbol with
\* its allocation percentage, in input order.
C21_LabelHoldsEveryHoldingAsStated ==
    (mode = "portfolio" /\ TotalAllocation(portfolio_data) = 1000) =>
        IsSubsequence(portfolio_data, Identifier.holdings)

\* C21: for a portfolio whose allocations sum to 100%, the identifier of the
\* request handed to the pipeline contains, in input order, the symbol in upper
\* case together with the allocation percentage of every holding that carries
\* a symbol; holdings without a symbol are left out of it.
C21_LabelHoldsNamedHoldings ==
    (mode = "portfolio" /\ TotalAllocation(portfolio_data) = 1000) =>
        /\ IsSubsequence(NamedHoldings(portfolio_data), Identifier.holdings)
        /\ Len(Identifier.holdings) = Len(NamedHoldings(portfolio_data))

C21_Witness ==
    /\ mode = "portfolio"
    /\ pc = "returned"
    /\ TotalAllocation(portfolio_data) = 1000
    /\ \E i \in DOMAIN portfolio_data : portfolio_data[i].symbol = ""
    /\ \E i \in DOMAIN portfolio_data : Upper(portfolio_data[i].symbol) # portfolio_data[i].symbol
    /\ Len(Identifier.holdings) = 2

\* the workflow_id values reported for the run: in the state returned to the
\* caller and in the session row created for it
ReportedWorkflowIds ==
    (IF returned # None THEN {returned[1].workflow_id} ELSE {})
        \cup {db[i].id : i \in SessionRows}

\* C22: during a run and after it, every workflow_id reported for it (in the
\* returned state, in the session row) is one under which get_workflow_state
\* finds the run's record.
C22_ReportedIdFindsRecord ==
    (mode # "none" /\ endpoint \in {"orchestrator", "/analyze"}) =>
        \A id \in ReportedWorkflowIds :
            /\ get_workflow_state(id) # None
            /\ get_workflow_state(id)[1].workflow_id = id

\* the clients with a call of analyze_stock started
Started == {c \in Clients : runs[c].pc # "idle"}

\* what belongs to c's run: its record, what it returned, and the channel
\* values saved under its workflow_id
RunView(rs, saved, c) ==
    << rs[c],
       IF rs[c].pc # "idle" /\ rs[c].state.workflow_id \in DOMAIN saved
       THEN Some(saved[rs[c].state.workflow_id]) ELSE None >>

\* every call has a workflow_id of its own, and its record, in memory and as
\* saved, is the one made for the symbol it was called with
OwnRecord ==
    /\ \A c, d \in Started : c # d => runs[c].state.workflow_id # runs[d].state.workflow_id
    /\ \A c \in Started :
        /\ runs[c].state.request.symbol = Upper(runs[c].symbol)
        /\ RunView(runs, storage, c)[2] = Some(runs[c].state)
        /\ runs[c].returned # None => runs[c].returned[1].workflow_id = runs[c].state.workflow_id

\* a step changes what belongs to one run at most
OneRunPerStep ==
    \A c, d \in Clients :
        (c # d /\ RunView(runs', storage', c) # RunView(runs, storage, c))
            => RunView(runs', storage', d) = RunView(runs, storage, d)

\* C23: every call of analyze_stock makes a fresh record under a workflow_id no
\* other run has, and whatever the interleaving of two runs on the shared
\* orchestrator, a step of one run leaves the record of the other (slots,
\* errors, warnings, current_step, result, saved channel values) as it was.
C23_RunsIndependent == []OwnRecord /\ [][OneRunPerStep]_vars

C23_Witness ==
    /\ runs["a"].pc = "legal_agent" /\ runs["a"].awaiting
    /\ runs["b"].pc = "geopolitics_agent" /\ runs["b"].awaiting
    /\ runs["a"].state.errors # << >>
    /\ runs["b"].state.errors = << >>
    /\ runs["a"].state.finance_analysis # None
    /\ runs["b"].state.request.symbol # runs["a"].state.request.symbol

\* the orchestrator runs made so far
OrchestratorRuns == IF mode = "none" THEN 0 ELSE 1

StreamAgentIndex(agent) == CHOOSE k \in DOMAIN StreamAgents : StreamAgents[k] = agent

\* C24: when a stream has emitted an agent_complete event, one orchestrator
\* run has been made for it and the event carries the analysis text and the
\* confidence of that stage's analysis in the run's record.
C24_StreamerReflectsRun ==
    \A c \in Clients : \A i \in DOMAIN gens[c].out :
        gens[c].out[i].type = "agent_complete" =>
            LET k == StreamAgentIndex(gens[c].out[i].agent)
                slot == state[SlotOf(Nodes[k])]
            IN  /\ OrchestratorRuns = 1
                /\ slot # None
                /\ AgentCompletePayload(k).analysis = slot[1].analysis
                /\ AgentCompletePayload(k).confidence = slot[1].confidence

\* some part of the text is a JSON object
HoldsObject(t) == \E i, j \in DOMAIN t : i <= j /\ IsJsonObject(SubSeq(t, i, j))

\* the dict of the free-text fallback: confidence 0.5 and a sentinel key factor
IsFallback(data) ==
    data.confidence = 50 /\ data.key_factors \in {<<"parsing_error">>, <<"unknown_error">>}

\* the texts that are one fenced block or one bare JSON object
WrappedObjects ==
    {t \in ResponseContents :
        \/ IsJsonObject(t)
        \/ /\ Len(t) >= 2 /\ Head(t) = "fence_json" /\ t[Len(t)] = "fence"
           /\ IsJsonObject(SubSeq(t, 2, Len(t) - 1))}

\* the JSON object a text of WrappedObjects consists of
ObjectOf(t) == IF IsJsonObject(t) THEN t ELSE SubSeq(t, 2, Len(t) - 1)

\* C25: _parse_response returns for every completion text; for a fenced block
\* and for a bare JSON object it returns the object's own data; it returns
\* confidence 0.5 with a sentinel key factor exactly when the text holds no
\* parseable structured data.
C25_ParseFallsBackOnlyWithoutData ==
    parsed # None =>
        /\ response_content \in WrappedObjects =>
                /\ ~IsFallback(parsed[1])
                /\ parsed[1].analysis = <<"analysis_of", ObjectOf(response_content)>>
        /\ IsFallback(parsed[1]) <=> ~HoldsObject(response_content)

\* the positions in db of the calls of one repository operation
CallsOf(op) == {i \in DOMAIN db : db[i].op = op}

\* the pipeline position of the stage a create_analysis call is for
StageOfCall(i) == CHOOSE k \in DOMAIN Nodes : AgentType(Nodes[k]) = db[i].arg

\* the session row exists and was set to processing before any stage ran
OpenedBeforeStages ==
    events # << >> =>
        \E i, j \in DOMAIN db :
            /\ i < j
            /\ db[i].op = "create_session"
            /\ db[j].op = "update_session_status" /\ db[j].arg = "processing"

\* analyses in pipeline order, predictions after them
SavedInPipelineOrder ==
    /\ \A i, j \in CallsOf("create_analysis") : i < j => StageOfCall(i) < StageOfCall(j)
    /\ \A i \in CallsOf("create_analysis"), j \in CallsOf("create_predictions") : i < j

\* the terminal status is the last call, and it is completed exactly when the
\* run's record has a result
TerminalStatusLast ==
    pc = "returned" =>
        /\ db[Len(db)].op = "update_session_status"
        /\ db[Len(db)].arg \in {"completed", "failed"}
        /\ db[Len(db)].arg = "completed" <=> returned[1].analysis_result # None

\* C26: on /analyze the session row is created and set to processing before the
\* first stage runs, the stage analyses are persisted in pipeline order, the
\* predictions after them and the terminal status last, and that status is
\* completed exactly when the record has a result, failed otherwise.
C26_PersistenceFollowsRun ==
    endpoint = "/analyze" /\ mode # "none" =>
        /\ OpenedBeforeStages
        /\ SavedInPipelineOrder
        /\ TerminalStatusLast

\* how many times entry e occurs in the list
Occurrences(list, e) == Cardinality({i \in DOMAIN list : list[i] = e})

\* every entry that may stand in an errors list
ErrorEntries == {ErrorEntry(n, "RuntimeError") : n \in NodeSet}

C28_EveryEventStamped ==
    \A c \in Clients : \A i \in DOMAIN gens[c].out :
        /\ gens[c].out[i].type # ""
        /\ gens[c].out[i].timestamp

\* client c's request on /stream/{session_id} ran the analysis: it has emitted
\* a stage event
RanAnalysis(c) ==
    /\ gens[c].kind = "/stream"
    /\ \E i \in DOMAIN gens[c].out : gens[c].out[i].type \in StageEventTypes

\* the session ids registered by /analyze-portfolio-stream-init at some time
InitialisedSessions == {db[i].id : i \in SessionRows}

SessionNotFound == <<StreamEvent("error", "", FALSE)>>

\* C29: of the /stream requests for one session_id at most one runs the
\* analysis and emits stage events; a request for a session_id that was never
\* initialised emits the 'Session not found' error only and no session status
\* is changed for it.
C29_StreamedAtMostOnce ==
    /\ \A c, d \in Clients :
        (c # d /\ gens[c].session_id = gens[d].session_id) => ~(RanAnalysis(c) /\ RanAnalysis(d))
    /\ \A c \in Clients :
        (gens[c].kind = "/stream" /\ gens[c].session_id \notin InitialisedSessions) =>
            /\ gens[c].out = SessionNotFound
            /\ \A i \in DOMAIN db : db[i].id # gens[c].session_id

\* the request of client c has set its session row to processing: /stream does
\* so before its session_start event, /analyze-portfolio-stream before its
\* status_update event
SetProcessing(c) ==
    \E i \in DOMAIN gens[c].out :
        gens[c].out[i].type = IF gens[c].kind = "/stream" THEN "session_start" ELSE "status_update"

\* the last status written to the row of session id
LastStatus(id) ==
    LET calls == SelectSeq(StatusCalls, LAMBDA c : c.id = id)
    IN  calls[Len(calls)].arg

\* a stream that set its row to processing, emitted an error event and has
\* ended leaves the row failed
StreamErrorLeavesFailed ==
    \A c \in Clients :
        (gens[c].at = "closed" /\ SetProcessing(c) /\ HasError(gens[c].out))
            => LastStatus(gens[c].session_id) = "failed"

\* a /analyze run that was set to processing and ended in an error (no result
\* or a raised exception: a 500 response) leaves the row failed
RunErrorLeavesFailed ==
    (endpoint = "/analyze" /\ pc = "returned" /\ response # None /\ response[1].status = 500)
        => SessionStatus = "failed"

\* C30: whenever a run or a stream whose session row was set to processing
\* ends in an error, the row ends with status failed: not completed, not
\* still processing.
C30_ErrorLeavesFailed == StreamErrorLeavesFailed /\ RunErrorLeavesFailed

====
